---- MODULE Spec2Model ----
(***************************************************************************)
(* The ORF finder of src/commons/Orf.cpp: codon tables, the sequence       *)
(* buffers built by setSequence, the batched codon matcher isInCodons and  *)
(* the three-phase scanner findForward, driven by findAll.                 *)
(*                                                                         *)
(* Bytes are the integers 0..255 (a char read as unsigned char).  Buffers  *)
(* are functions from 0-based indices to bytes, as in the C++ code.        *)
(***************************************************************************)
EXTENDS Integers, Sequences, FiniteSets, TLC

VARIABLES
    avx2,               \* build variant: TRUE when compiled with AVX2
    stopCodons,         \* 32-byte stop table (8 slots of 4 bytes)
    stopCodonCount,
    startCodons,        \* 32-byte start table
    startCodonCount,
    sequence,           \* forward buffer
    reverseComplement,  \* reverse-complement buffer
    bufferSize,
    sequenceLength,
    ingested,           \* history: the last buffer-changing setSequence returned true
    call,               \* history: the last call, its arguments, its return value
                        \* and, for setSequence, the instance it was made on,
                        \* for findAll, the positions each pass visited and
                        \* the per-phase arrays each pass ended with
    result,             \* the vector findAll appended to
    trace               \* history: what findForward did at each ORF closure

vars == <<avx2, stopCodons, stopCodonCount, startCodons, startCodonCount,
          sequence, reverseComplement, bufferSize, sequenceLength,
          ingested, call, result, trace>>

-----------------------------------------------------------------------------
(* Bounds of the model *)

\* number of codons of the longest scanned sequence
MaxCodons == 3

\* longest raw input of the ingestion specifications
MaxRawLen == 4

\* stand-in for the 32000 bytes the constructor allocates, small enough for
\* setSequence to reallocate within the bounds
InitialBufferSize == 7

\* most triplets a genetic code hands the constructor for one table
MaxTriplets == 9

-----------------------------------------------------------------------------
(* Characters *)

Chr ==
    [A |-> 65, B |-> 66, C |-> 67, D |-> 68, G |-> 71, H |-> 72, K |-> 75,
     M |-> 77, N |-> 78, R |-> 82, S |-> 83, T |-> 84, U |-> 85, V |-> 86,
     W |-> 87, X |-> 88, Y |-> 89, a |-> 97, c |-> 99, g |-> 103, n |-> 110,
     t |-> 116, u |-> 117, x |-> 120, dot |-> 46]

Byte == 0..255

CHAR_MAX == 127

\* content of memory that was allocated and not written, or lies outside
\* the allocation: no byte value
Indeterminate == 256

\* the 256 entries of the table, '.' where no complement is defined
iupacReverseComplementTable ==
    [b \in Byte |->
        CASE b = 65 -> 84    \* A -> T
          [] b = 66 -> 86    \* B -> V
          [] b = 67 -> 71    \* C -> G
          [] b = 68 -> 72    \* D -> H
          [] b = 71 -> 67    \* G -> C
          [] b = 72 -> 68    \* H -> D
          [] b = 75 -> 77    \* K -> M
          [] b = 77 -> 75    \* M -> K
          [] b = 78 -> 78    \* N -> N
          [] b = 82 -> 89    \* R -> Y
          [] b = 83 -> 83    \* S -> S
          [] b = 84 -> 65    \* T -> A
          [] b = 85 -> 65    \* U -> A
          [] b = 86 -> 66    \* V -> B
          [] b = 87 -> 87    \* W -> W
          [] b = 89 -> 82    \* Y -> R
          [] b = 97 -> 116   \* a -> t
          [] b = 98 -> 118   \* b -> v
          [] b = 99 -> 103   \* c -> g
          [] b = 100 -> 104  \* d -> h
          [] b = 103 -> 99   \* g -> c
          [] b = 104 -> 100  \* h -> d
          [] b = 107 -> 109  \* k -> m
          [] b = 109 -> 107  \* m -> k
          [] b = 110 -> 110  \* n -> n
          [] b = 114 -> 121  \* r -> y
          [] b = 115 -> 115  \* s -> s
          [] b = 116 -> 97   \* t -> a
          [] b = 117 -> 97   \* u -> a
          [] b = 118 -> 98   \* v -> b
          [] b = 119 -> 119  \* w -> w
          [] b = 121 -> 114  \* y -> r
          [] OTHER -> 46]

complement(c) ==
    iupacReverseComplementTable[c]

\* a read of mem[idx]; outside the allocation the content is indeterminate
Read(mem, idx) ==
    IF idx \in DOMAIN mem THEN mem[idx] ELSE Indeterminate

-----------------------------------------------------------------------------
(* Build variants (simd.h): the width of simd_int in 32-bit lanes *)

VECSIZE_INT(isAvx2) ==
    IF isAvx2 THEN 8 ELSE 4

-----------------------------------------------------------------------------
(* Orf::Orf: the codon tables *)

\* memset(table, 0, 32), then memcpy(table + 4*i, codons[i], 3) for each codon
FillCodonTable(codons) ==
    [b \in 0..31 |->
        IF (b \div 4) < Len(codons) /\ (b % 4) < 3
        THEN codons[(b \div 4) + 1][(b % 4) + 1]
        ELSE 0]

\* the start codons the constructor stores
SelectStartCodons(tableStarts, useAllTableStarts) ==
    IF useAllTableStarts THEN tableStarts
    ELSE << <<Chr.A, Chr.T, Chr.G>> >>

-----------------------------------------------------------------------------
(* Orf::setSequence *)

\* c & ~0x20
ClearBit5(c) ==
    IF (c \div 32) % 2 = 1 THEN c - 32 ELSE c

\* sequence[i] = seq[i] & ~0x20; if (sequence[i] == 'U') sequence[i] = 'T'
Normalize(c) ==
    LET up == ClearBit5(c) IN IF up = Chr.U THEN Chr.T ELSE up

TooShort_Below2(length) ==
    length < 2

\* if (length < 3) return false
TooShort(length) ==
    length < 3

RejectShort_StoresLength(inst, length) ==
    [inst EXCEPT !.sequenceLength = length, !.ret = FALSE]

\* the early return: nothing is written
RejectShort(inst, length) ==
    [inst EXCEPT !.ret = FALSE]

ReverseIndex_Forward(length, i) ==
    i

\* the index the second loop reads: sequenceLength - i - 1
ReverseIndex(length, i) ==
    length - i - 1

IsPadded_FirstByteOnly(length, i, isAvx2) ==
    i = length

\* the indices the third loop writes: sequenceLength <= i < sequenceLength + VECSIZE_INT
IsPadded(length, i, isAvx2) ==
    i >= length /\ i < length + VECSIZE_INT(isAvx2)

\* The instance is [sequence, reverseComplement, bufferSize, sequenceLength, ret];
\* seq is the caller's array (1-based here), length its second argument.
setSequence(inst, seq, length, isAvx2) ==
    IF TooShort(length) THEN RejectShort(inst, length)
    ELSE
      LET grown == (length + VECSIZE_INT(isAvx2)) > inst.bufferSize
          cap   == IF grown THEN length + VECSIZE_INT(isAvx2) ELSE inst.bufferSize
          fwd0  == IF grown THEN [i \in 0..(cap - 1) |-> Indeterminate]
                            ELSE inst.sequence
          rev0  == IF grown THEN [i \in 0..(cap - 1) |-> Indeterminate]
                            ELSE inst.reverseComplement
          \* first loop
          fwd1  == [i \in 0..(cap - 1) |->
                      IF i < length THEN Normalize(seq[i + 1]) ELSE fwd0[i]]
          \* second loop: stops at the first '.' it has written
          bad   == {i \in 0..(length - 1) :
                      complement(fwd1[ReverseIndex(length, i)]) = Chr.dot}
          last  == IF bad = {} THEN length - 1
                   ELSE CHOOSE i \in bad : \A j \in bad : i <= j
          rev1  == [i \in 0..(cap - 1) |->
                      IF i <= last THEN complement(fwd1[ReverseIndex(length, i)])
                      ELSE rev0[i]]
          \* third loop
          fwd2  == [i \in 0..(cap - 1) |->
                      IF IsPadded(length, i, isAvx2) THEN CHAR_MAX ELSE fwd1[i]]
          rev2  == [i \in 0..(cap - 1) |->
                      IF IsPadded(length, i, isAvx2) THEN CHAR_MAX ELSE rev1[i]]
      IN IF bad # {}
         THEN [sequence |-> fwd1, reverseComplement |-> rev1, bufferSize |-> cap,
               sequenceLength |-> length, ret |-> FALSE]
         ELSE [sequence |-> fwd2, reverseComplement |-> rev2, bufferSize |-> cap,
               sequenceLength |-> length, ret |-> TRUE]

\* the instance as a record, and the state after a call
Instance ==
    [sequence |-> sequence, reverseComplement |-> reverseComplement,
     bufferSize |-> bufferSize, sequenceLength |-> sequenceLength, ret |-> FALSE]

-----------------------------------------------------------------------------
(* isIncomplete, isGapOrN, isInCodons *)

FRAMES == 3

\* frameLookup[frame] = {FRAME_1, FRAME_2, FRAME_3}[frame], one mask bit per
\* phase (the enumerators of Orf.h)
frameLookup ==
    <<1, 2, 4>>

FrameSelected_Always(frames, frame) ==
    TRUE

\* frames & frameLookup[frame]
FrameSelected(frames, frame) ==
    (frames \div frameLookup[frame + 1]) % 2 = 1

\* codon[0] == CHAR_MAX || codon[1] == CHAR_MAX || codon[2] == CHAR_MAX
isIncomplete(buf, p) ==
    \/ Read(buf, p) = CHAR_MAX
    \/ Read(buf, p + 1) = CHAR_MAX
    \/ Read(buf, p + 2) = CHAR_MAX

isGapOrN(buf, p) ==
    \/ Read(buf, p) = Chr.N     \/ complement(Read(buf, p)) = Chr.dot
    \/ Read(buf, p + 1) = Chr.N \/ complement(Read(buf, p + 1)) = Chr.dot
    \/ Read(buf, p + 2) = Chr.N \/ complement(Read(buf, p + 2)) = Chr.dot

\* simdi_load / simdi_loadu: VECSIZE_INT 32-bit lanes read from mem + offset
LoadVector(mem, offset, isAvx2) ==
    [k \in 0..(VECSIZE_INT(isAvx2) - 1) |->
        <<Read(mem, offset + 4 * k), Read(mem, offset + 4 * k + 1),
          Read(mem, offset + 4 * k + 2), Read(mem, offset + 4 * k + 3)>>]

\* the indices one vector load at mem + offset touches
LoadedIndices(offset, isAvx2) ==
    offset..(offset + 4 * VECSIZE_INT(isAvx2) - 1)

\* the indices isIncomplete(codon) reads at mem + p: || stops at the first
\* CHAR_MAX
IncompleteReads(mem, p) ==
    {p} \cup (IF Read(mem, p) = CHAR_MAX THEN {}
              ELSE {p + 1} \cup (IF Read(mem, p + 1) = CHAR_MAX THEN {} ELSE {p + 2}))

\* the indices the loop body reads at a visited position: thisIncomplete,
\* the look-ahead of isLast (evaluated when the window is complete), and the
\* vector load of the stop test
ScannerReads(mem, p, isAvx2) ==
    IncompleteReads(mem, p)
    \cup (IF isIncomplete(mem, p) THEN {} ELSE IncompleteReads(mem, p + 3))
    \cup LoadedIndices(p, isAvx2)

\* how the two comparisons of the 8-slot path are combined
CombineHalves(hit, hit2) ==
    hit /\ hit2

\* isInCodons<N>(sequence + position, codons, codons2)
isInCodons(N, buf, position, codons, codons2, isAvx2) ==
    LET c     == LoadVector(buf, position, isAvx2)
        \* lane 0 broadcast to every lane, then & 0x00FFFFFF
        shuf  == <<c[0][1], c[0][2], c[0][3], 0>>
        test  == {k \in DOMAIN codons : codons[k] = shuf}
        test2 == {k \in DOMAIN codons2 : codons2[k] = shuf}
    IN IF (~isAvx2) /\ N > 4
       THEN CombineHalves(test # {}, test2 # {})
       ELSE test # {}

\* simd_int startCodonsHi = simdi_load(startCodons), startCodonsLo =
\* simdi_loadu(startCodons + 16), and the same for stopCodons: the four
\* registers findForward fills before its loop
LoadTables(t) ==
    [startCodonsHi |-> [LoadVector(t.startCodons, 0, t.avx2) EXCEPT ![0] = @],
     startCodonsLo |-> [LoadVector(t.startCodons, 16, t.avx2) EXCEPT ![0] = @],
     stopCodonsHi  |-> [LoadVector(t.stopCodons, 0, t.avx2) EXCEPT ![0] = @],
     stopCodonsLo  |-> [LoadVector(t.stopCodons, 16, t.avx2) EXCEPT ![0] = @],
     startCodonCount |-> t.startCodonCount,
     stopCodonCount  |-> t.stopCodonCount,
     avx2 |-> t.avx2]

\* (count > 4) ? isInCodons<8>(codon, Hi, Lo) : isInCodons<4>(codon, Hi, Lo)
MatchCodon(buf, position, hi, lo, count, isAvx2) ==
    IF count > 4
    THEN isInCodons(8, buf, position, hi, lo, isAvx2)
    ELSE isInCodons(4, buf, position, hi, lo, isAvx2)

-----------------------------------------------------------------------------
(* Orf::findForward *)

ShouldStart_IgnoresInside(startMode, inside, isStart) ==
    IF startMode = "ANY_TO_STOP" THEN ~inside ELSE isStart

ShouldStart(startMode, inside, isStart) ==
    IF startMode = "START_TO_STOP" THEN (~inside) /\ isStart
    ELSE IF startMode = "ANY_TO_STOP" THEN ~inside
    ELSE isStart

StartAllowed_OnLast(shouldStart, isLast) ==
    shouldStart

\* if (shouldStart && isLast == false)
StartAllowed(shouldStart, isLast) ==
    shouldStart /\ ~isLast

AfterClosure_StaysInside(inside) ==
    inside

\* isInsideOrf[frame] = false, first statement of the closing branch
AfterClosure(inside) ==
    FALSE

ClosingOffset_PastCodon(position, isLast) ==
    position + 3

ClosingOffset_NeverPast(position, isLast) ==
    position

\* size_t to = position + (isLast ? 3 : 0)
ClosingOffset(position, isLast) ==
    position + (IF isLast THEN 3 ELSE 0)

SkipsEmptySpan_Never(to, from) ==
    FALSE

\* if (to == from[frame]) continue
SkipsEmptySpan(to, from) ==
    to = from

Filtered_MinInclusive(gaps, length, minLength, maxLength, maxGaps) ==
    \/ gaps > maxGaps
    \/ length > maxLength
    \/ length < minLength

\* the orfs the filter drops
Filtered(gaps, length, minLength, maxLength, maxGaps) ==
    \/ gaps > maxGaps
    \/ length > maxLength
    \/ length <= minLength

\* the per-phase arrays at the top of findForward; result holds what this
\* pass appends to the caller's vector; opener and trace are history, not
\* program state; visits is the history of the positions whose codon the
\* loop body classified
ScanInit ==
    [isInsideOrf   |-> [f \in 0..(FRAMES - 1) |-> TRUE],
     hasStartCodon |-> [f \in 0..(FRAMES - 1) |-> FALSE],
     countGaps     |-> [f \in 0..(FRAMES - 1) |-> 0],
     countLength   |-> [f \in 0..(FRAMES - 1) |-> 0],
     from          |-> [f \in 0..(FRAMES - 1) |-> f],
     opener        |-> [f \in 0..(FRAMES - 1) |-> "seed"],
     result        |-> <<>>,
     trace         |-> <<>>,
     visits        |-> <<>>]

\* isLast: this window is complete and the next one of its phase is not
IsLast(buf, position) ==
    (~isIncomplete(buf, position)) /\ isIncomplete(buf, position + FRAMES)

\* The inner loop body at `position` is TakeStart, then Account, then CloseOrf.
\* a holds the arguments (minLength, maxLength, maxGaps, frames, startMode,
\* strand) and t the registers loaded from the tables, the counts and the build.

\* if (shouldStart && isLast == false) { ... }
TakeStart(s, buf, position, a, t) ==
    LET frame   == position % FRAMES
        isStart == MatchCodon(buf, position, t.startCodonsHi, t.startCodonsLo,
                              t.startCodonCount, t.avx2)
    IN IF StartAllowed(ShouldStart(a.startMode, s.isInsideOrf[frame], isStart),
                       IsLast(buf, position))
       THEN [s EXCEPT !.isInsideOrf[frame] = TRUE,
                      !.hasStartCodon[frame] = TRUE,
                      !.from[frame] = position,
                      !.countGaps[frame] = 0,
                      !.countLength[frame] = 0,
                      !.opener[frame] = "start"]
       ELSE s

\* if (isInsideOrf[frame]) { countLength[frame]++; if (isGapOrN(codon)) countGaps[frame]++; }
Account(s, buf, position) ==
    LET frame == position % FRAMES
    IN IF s.isInsideOrf[frame]
       THEN [s EXCEPT !.countLength[frame] = @ + 1,
                      !.countGaps[frame] =
                          IF isGapOrN(buf, position) THEN @ + 1 ELSE @]
       ELSE s

\* if (isInsideOrf[frame] && (stop || isLast)) { ... }
CloseOrf(s, buf, position, a, t) ==
    LET frame  == position % FRAMES
        isLast == IsLast(buf, position)
        stop   == MatchCodon(buf, position, t.stopCodonsHi, t.stopCodonsLo,
                             t.stopCodonCount, t.avx2)
    IN IF s.isInsideOrf[frame] /\ (stop \/ isLast)
       THEN
         LET to   == ClosingOffset(position, isLast)
             skip == SkipsEmptySpan(to, s.from[frame])
             drop == Filtered(s.countGaps[frame], s.countLength[frame],
                              a.minLength, a.maxLength, a.maxGaps)
             emit == (~skip) /\ ~drop
             loc  == [from |-> s.from[frame], to |-> to,
                      hasIncompleteStart |-> ~s.hasStartCodon[frame],
                      hasIncompleteEnd |-> ~stop, strand |-> a.strand]
             closed == [s EXCEPT !.isInsideOrf[frame] = AfterClosure(@)]
             event == [strand |-> a.strand, frame |-> frame, position |-> position,
                       stop |-> stop, isLast |-> isLast, loc |-> loc,
                       countLength |-> s.countLength[frame],
                       countGaps |-> s.countGaps[frame],
                       opener |-> s.opener[frame],
                       asserted |-> ~skip,
                       emitted |-> emit,
                       insideAfter |-> closed.isInsideOrf[frame]]
         IN [closed EXCEPT !.result = IF emit THEN Append(@, loc) ELSE @,
                           !.trace = Append(@, event)]
       ELSE s

LoopContinues_ToLastFullCodon(i, length) ==
    i < length - FRAMES

\* the test of the outer loop: i < sequenceLength - (FRAMES - 1)
LoopContinues(i, length) ==
    i < length - (FRAMES - 1)

\* One pass of the inner loop body.  Each intermediate state is bound as the
\* element of a one-element set, so that it is a value when it is used.
ScanStep(s, buf, position, a, t) ==
    IF ~FrameSelected(a.frames, position % FRAMES) THEN s
    ELSE CHOOSE s3 \in
           {CloseOrf(s2, buf, position, a, t) :
              s2 \in {Account(s1, buf, position) :
                        s1 \in {TakeStart([s EXCEPT !.visits = Append(@, position)],
                                          buf, position, a, t)}}} : TRUE

\* for (i = 0; i < sequenceLength - (FRAMES - 1); i += FRAMES)
\*   for (position = i; position < i + FRAMES; position++)
\* position runs on while the i it belongs to passes the outer test
RECURSIVE ScanFrom(_, _, _, _, _, _)
ScanFrom(s, buf, length, position, a, t) ==
    IF LoopContinues(FRAMES * (position \div FRAMES), length)
    THEN CHOOSE r \in
           {ScanFrom(s1, buf, length, position + 1, a, t) :
              s1 \in {ScanStep(s, buf, position, a, t)}} : TRUE
    ELSE s

\* what one findForward call appends to result
findForward(buf, length, a, t) ==
    CHOOSE s \in
      {ScanFrom(ScanInit, b, length, 0, args, regs) :
         b \in {buf}, args \in {a}, regs \in {LoadTables(t)}} : TRUE

\* Orf::findAll; the caller's vector is empty on entry and the second pass
\* appends after the first
findAll(inst, a, t) ==
    LET none == ScanInit
        fwd == IF a.forwardFrames # 0
               THEN findForward(inst.sequence, inst.sequenceLength,
                                [minLength |-> a.minLength, maxLength |-> a.maxLength,
                                 maxGaps |-> a.maxGaps, frames |-> a.forwardFrames,
                                 startMode |-> a.startMode, strand |-> "PLUS"], t)
               ELSE none
        rev == IF a.reverseFrames # 0
               THEN findForward(inst.reverseComplement, inst.sequenceLength,
                                [minLength |-> a.minLength, maxLength |-> a.maxLength,
                                 maxGaps |-> a.maxGaps, frames |-> a.reverseFrames,
                                 startMode |-> a.startMode, strand |-> "MINUS"], t)
               ELSE none
    IN [result |-> fwd.result \o rev.result, trace |-> fwd.trace \o rev.trace,
        visits |-> [PLUS |-> fwd.visits, MINUS |-> rev.visits],
        final |-> [PLUS |-> fwd, MINUS |-> rev]]

\* the tables and the build, as findForward reads them
Tables ==
    [stopCodons |-> stopCodons, stopCodonCount |-> stopCodonCount,
     startCodons |-> startCodons, startCodonCount |-> startCodonCount,
     avx2 |-> avx2]

-----------------------------------------------------------------------------
(* Inputs *)

ATG == <<Chr.A, Chr.T, Chr.G>>
TAA == <<Chr.T, Chr.A, Chr.A>>
AAA == <<Chr.A, Chr.A, Chr.A>>
ANA == <<Chr.A, Chr.N, Chr.A>>
CCC == <<Chr.C, Chr.C, Chr.C>>

\* What the genetic-code provider (TranslateNucl) hands the constructor:
\* a code with one stop codon, and a code with five stop and five start
\* codons, so that both table widths (<= 4 and > 4 triplets) are built.
GeneticCodes ==
    [one  |-> [stops  |-> <<TAA>>,
               starts |-> <<ATG>>],
     many |-> [stops  |-> <<TAA, <<Chr.T, Chr.A, Chr.G>>, <<Chr.T, Chr.G, Chr.A>>,
                            <<Chr.A, Chr.G, Chr.A>>, <<Chr.A, Chr.G, Chr.G>> >>,
               starts |-> <<ATG, <<Chr.A, Chr.T, Chr.A>>, <<Chr.A, Chr.T, Chr.T>>,
                            <<Chr.G, Chr.T, Chr.G>>, <<Chr.T, Chr.T, Chr.G>> >>]]

\* (requestedGenCode, useAllTableStarts) of the instances that are built
Constructions ==
    {<<"one", FALSE>>, <<"many", TRUE>>}

ScanCodons ==
    {ATG, TAA, AAA, ANA}

RECURSIVE CodonStrings(_)
CodonStrings(n) ==
    IF n = 0 THEN {<<>>}
    ELSE {s \o c : s \in CodonStrings(n - 1), c \in ScanCodons}

\* the two sequences the specification's examples scan
ExampleSequences ==
    {ATG \o AAA \o TAA, TAA \o ATG \o CCC}

\* sequences of MaxCodons + 1 codons without N: long enough for two ORFs
\* in one phase
RECURSIVE LongCodonStrings(_)
LongCodonStrings(n) ==
    IF n = 0 THEN {<<>>}
    ELSE {s \o c : s \in LongCodonStrings(n - 1), c \in {ATG, TAA, AAA}}

\* sequences of 1..MaxCodons codons followed by 0..2 more bytes, and the
\* longer ones
ScanInputs ==
    {s \o SubSeq(<<Chr.A, Chr.T>>, 1, k) :
        s \in UNION {CodonStrings(n) : n \in 1..MaxCodons}, k \in 0..2}
    \cup LongCodonStrings(MaxCodons + 1)
    \cup ExampleSequences

Thresholds ==
    {[minLength |-> 0, maxLength |-> 100, maxGaps |-> 0],
     [minLength |-> 1, maxLength |-> 2, maxGaps |-> 1]}

FrameMasks ==
    {[forwardFrames |-> 1, reverseFrames |-> 0],
     [forwardFrames |-> 7, reverseFrames |-> 7]}

StartModes ==
    {"START_TO_STOP", "ANY_TO_STOP", "LAST_START_TO_STOP"}

ScanArgs ==
    {[minLength |-> th.minLength, maxLength |-> th.maxLength, maxGaps |-> th.maxGaps,
      forwardFrames |-> fm.forwardFrames, reverseFrames |-> fm.reverseFrames,
      startMode |-> sm] : th \in Thresholds, fm \in FrameMasks, sm \in StartModes}

-----------------------------------------------------------------------------
(* The instance: construction and the calls on it *)

\* Orf::Orf(requestedGenCode, useAllTableStarts), built as variant isAvx2.
\* sequenceLength is not set and the two buffers are not written.
Construct(code, useAllTableStarts, isAvx2) ==
    LET stops  == GeneticCodes[code].stops
        starts == SelectStartCodons(GeneticCodes[code].starts, useAllTableStarts)
    IN /\ avx2 = isAvx2
       /\ stopCodons = FillCodonTable(stops)
       /\ stopCodonCount = Len(stops)
       /\ startCodons = FillCodonTable(starts)
       /\ startCodonCount = Len(starts)
       /\ sequence = [i \in 0..(InitialBufferSize - 1) |-> Indeterminate]
       /\ reverseComplement = [i \in 0..(InitialBufferSize - 1) |-> Indeterminate]
       /\ bufferSize = InitialBufferSize
       /\ sequenceLength = Indeterminate
       /\ ingested = FALSE
       /\ call = [op |-> "Orf"]
       /\ result = <<>>
       /\ trace = <<>>

\* a call setSequence(raw, Len(raw))
SetSequence(raw) ==
    LET after == setSequence(Instance, raw, Len(raw), avx2)
    IN /\ sequence' = after.sequence
       /\ reverseComplement' = after.reverseComplement
       /\ bufferSize' = after.bufferSize
       /\ sequenceLength' = after.sequenceLength
       /\ ingested' = IF TooShort(Len(raw)) THEN ingested ELSE after.ret
       /\ call' = [op |-> "setSequence", raw |-> raw, ret |-> after.ret,
                   before |-> Instance, wasIngested |-> ingested]
       /\ UNCHANGED <<avx2, stopCodons, stopCodonCount, startCodons, startCodonCount,
                      result, trace>>

\* a call findAll(result, ...) with an empty result vector, made (as its
\* callers do) right after an ingestion that succeeded
FindAll(a) ==
    /\ ingested
    /\ call.op = "setSequence"
    /\ LET found == findAll(Instance, a, Tables)
       IN /\ result' = found.result
          /\ trace' = found.trace
          /\ call' = [op |-> "findAll", args |-> a, visits |-> found.visits,
                      final |-> found.final]
    /\ UNCHANGED <<avx2, stopCodons, stopCodonCount, startCodons, startCodonCount,
                   sequence, reverseComplement, bufferSize, sequenceLength, ingested>>

-----------------------------------------------------------------------------
(* Spec: one sequence is ingested into a new instance and scanned *)

Init ==
    \E k \in Constructions, isAvx2 \in BOOLEAN : Construct(k[1], k[2], isAvx2)

IngestScanInput ==
    /\ call.op = "Orf"
    /\ \E raw \in ScanInputs : SetSequence(raw)

Scan ==
    \E a \in ScanArgs : FindAll(a)

Next ==
    \/ IngestScanInput
    \/ Scan

Spec ==
    Init /\ [][Next]_vars

-----------------------------------------------------------------------------
(* SpecMask: scans of one sequence under every frame mask *)

RECURSIVE MaskCodonStrings(_)
MaskCodonStrings(n) ==
    IF n = 0 THEN {<<>>}
    ELSE {s \o c : s \in MaskCodonStrings(n - 1), c \in {ATG, TAA}}

\* MaxCodons + 1 codons followed by 0..2 more bytes
MaskInputs ==
    {s \o SubSeq(<<Chr.A, Chr.T>>, 1, k) :
        s \in MaskCodonStrings(MaxCodons + 1), k \in 0..2}

\* every non-empty mask on the forward strand, its complement in 1..7 on the
\* reverse strand, every start mode
MaskArgs ==
    {[minLength |-> 0, maxLength |-> 100, maxGaps |-> 0,
      forwardFrames |-> m, reverseFrames |-> 8 - m, startMode |-> sm] :
        m \in 1..7, sm \in StartModes}

IngestMaskInput ==
    /\ call.op = "Orf"
    /\ \E raw \in MaskInputs : SetSequence(raw)

ScanMasks ==
    \E a \in MaskArgs : FindAll(a)

NextMask ==
    \/ IngestMaskInput
    \/ ScanMasks

SpecMask ==
    Init /\ [][NextMask]_vars

-----------------------------------------------------------------------------
(* SpecStep: findAll one loop iteration at a time.  While a pass runs, call  *)
(* holds the strands still to scan (the first is being scanned), the         *)
(* position of the inner loop, the per-phase arrays, and what result and     *)
(* trace held when the pass began.                                           *)

\* the findForward calls findAll makes, in order
Passes(a) ==
    (IF a.forwardFrames # 0 THEN <<"PLUS">> ELSE <<>>)
    \o (IF a.reverseFrames # 0 THEN <<"MINUS">> ELSE <<>>)

\* the arguments findAll passes to findForward for a strand
PassArgs(a, strand) ==
    [minLength |-> a.minLength, maxLength |-> a.maxLength, maxGaps |-> a.maxGaps,
     frames |-> IF strand = "PLUS" THEN a.forwardFrames ELSE a.reverseFrames,
     startMode |-> a.startMode, strand |-> strand]

\* one codon or MaxCodons codons, followed by 0..2 more bytes
StepInputs ==
    {s \o SubSeq(<<Chr.A, Chr.T>>, 1, k) :
        s \in MaskCodonStrings(1) \cup MaskCodonStrings(MaxCodons), k \in 0..2}

StepArgs ==
    {[minLength |-> 0, maxLength |-> 100, maxGaps |-> 0,
      forwardFrames |-> 7, reverseFrames |-> 7, startMode |-> "ANY_TO_STOP"],
     [minLength |-> 0, maxLength |-> 100, maxGaps |-> 0,
      forwardFrames |-> 5, reverseFrames |-> 2, startMode |-> "START_TO_STOP"],
     [minLength |-> 0, maxLength |-> 100, maxGaps |-> 0,
      forwardFrames |-> 0, reverseFrames |-> 1, startMode |-> "LAST_START_TO_STOP"]}

IngestStepInput ==
    /\ call.op = "Orf"
    /\ \E raw \in StepInputs : SetSequence(raw)

\* findAll is entered with an empty result vector
BeginFindAll ==
    /\ ingested
    /\ call.op = "setSequence"
    /\ \E a \in StepArgs :
         call' = [op |-> "findForward", args |-> a, todo |-> Passes(a),
                  position |-> 0, s |-> ScanInit,
                  resultBefore |-> <<>>, traceBefore |-> <<>>,
                  visits |-> [PLUS |-> <<>>, MINUS |-> <<>>],
                  final |-> [PLUS |-> ScanInit, MINUS |-> ScanInit]]
    /\ result' = <<>>
    /\ trace' = <<>>
    /\ UNCHANGED <<avx2, stopCodons, stopCodonCount, startCodons, startCodonCount,
                   sequence, reverseComplement, bufferSize, sequenceLength, ingested>>

\* one iteration of the inner loop
LoopStep ==
    /\ call.op = "findForward"
    /\ LoopContinues(FRAMES * (call.position \div FRAMES), sequenceLength)
    /\ \E after \in {ScanStep(call.s,
                              IF Head(call.todo) = "PLUS" THEN sequence
                              ELSE reverseComplement,
                              call.position,
                              PassArgs(call.args, Head(call.todo)),
                              LoadTables(Tables))} :
         /\ call' = [call EXCEPT !.s = after, !.position = @ + 1]
         /\ result' = call.resultBefore \o after.result
         /\ trace' = call.traceBefore \o after.trace
    /\ UNCHANGED <<avx2, stopCodons, stopCodonCount, startCodons, startCodonCount,
                   sequence, reverseComplement, bufferSize, sequenceLength, ingested>>

\* the outer loop test fails: findForward returns, and findAll goes on to
\* the reverse strand or returns
EndPass ==
    /\ call.op = "findForward"
    /\ ~LoopContinues(FRAMES * (call.position \div FRAMES), sequenceLength)
    /\ LET strand == Head(call.todo)
           seen   == [call.visits EXCEPT ![strand] = call.s.visits]
           ended  == [call.final EXCEPT ![strand] = call.s]
       IN call' = IF Len(call.todo) > 1
                  THEN [call EXCEPT !.todo = Tail(@), !.position = 0, !.s = ScanInit,
                                    !.resultBefore = result, !.traceBefore = trace,
                                    !.visits = seen, !.final = ended]
                  ELSE [op |-> "findAll", args |-> call.args, visits |-> seen,
                        final |-> ended]
    /\ UNCHANGED <<avx2, stopCodons, stopCodonCount, startCodons, startCodonCount,
                   sequence, reverseComplement, bufferSize, sequenceLength,
                   ingested, result, trace>>

NextStep ==
    \/ IngestStepInput
    \/ BeginFindAll
    \/ LoopStep
    \/ EndPass

\* the loop runs without interruption once findAll is called
SpecStep ==
    Init /\ [][NextStep]_vars /\ WF_vars(LoopStep) /\ WF_vars(EndPass)

-----------------------------------------------------------------------------
(* SpecConstruct: the constructor one statement at a time.  While it runs,   *)
(* call holds the codons being copied, the loop index i, the byte offset     *)
(* count, and the bytes written past the end of a table.                     *)

\* memcpy(table + count, codon, 3), for the bytes that fall inside the table
WriteCodon(table, count, codon) ==
    [b \in 0..31 |->
        IF b \in count..(count + 2) THEN codon[b - count + 1] ELSE table[b]]

\* the bytes of that memcpy that fall past the 8 * sizeof(int) bytes of the table
OutsideWrites(count) ==
    {b \in count..(count + 2) : b >= 32}

\* if(stopCodonCount > 8), if(startCodonCount > 8)
TooManyCodons(n) ==
    n > 8

\* the k-th of the 64 triplets over T, C, A, G
Triplet(k) ==
    LET base == <<Chr.T, Chr.C, Chr.A, Chr.G>>
    IN <<base[((k \div 16) % 4) + 1], base[((k \div 4) % 4) + 1], base[(k % 4) + 1]>>

Triplets(n) ==
    [k \in 1..n |-> Triplet(k - 1)]

\* sizes of the stop and start lists a genetic code may hand over
TableSizes ==
    {1, 4, 8, MaxTriplets}

ConstructCodes ==
    {GeneticCodes.one, GeneticCodes.many}
    \cup {[stops |-> Triplets(n), starts |-> Triplets(m)] : n, m \in TableSizes}

\* the constructor has allocated and zeroed the stop table and fetched the
\* stop codons; nothing else of the object is set
InitConstruct ==
    \E code \in ConstructCodes, useAllTableStarts, isAvx2 \in BOOLEAN :
        /\ avx2 = isAvx2
        /\ stopCodons = [b \in 0..31 |-> 0]
        /\ stopCodonCount = Indeterminate
        /\ startCodons = [b \in 0..31 |-> Indeterminate]
        /\ startCodonCount = Indeterminate
        /\ sequence = <<>>
        /\ reverseComplement = <<>>
        /\ bufferSize = Indeterminate
        /\ sequenceLength = Indeterminate
        /\ ingested = FALSE
        /\ call = [op |-> "Orf::Orf", table |-> "stopCodons", codons |-> code.stops,
                   i |-> 0, count |-> 0, outside |-> {},
                   starts |-> code.starts, useAllTableStarts |-> useAllTableStarts]
        /\ result = <<>>
        /\ trace = <<>>

\* one iteration of a copy loop: memcpy of codons[i], count += 4
CopyCodon ==
    /\ call.op = "Orf::Orf"
    /\ call.i < Len(call.codons)
    /\ call' = [call EXCEPT !.i = @ + 1, !.count = @ + 4,
                            !.outside = @ \cup {<<call.table, b>> :
                                                   b \in OutsideWrites(call.count)}]
    /\ IF call.table = "stopCodons"
       THEN /\ stopCodons' = WriteCodon(stopCodons, call.count, call.codons[call.i + 1])
            /\ UNCHANGED startCodons
       ELSE /\ startCodons' = WriteCodon(startCodons, call.count, call.codons[call.i + 1])
            /\ UNCHANGED stopCodons
    /\ UNCHANGED <<avx2, stopCodonCount, startCodonCount, sequence, reverseComplement,
                   bufferSize, sequenceLength, ingested, result, trace>>

\* the stop loop has ended: the count is stored and tested, then the start
\* codons are chosen and their table allocated and zeroed
FinishStops ==
    /\ call.op = "Orf::Orf"
    /\ call.table = "stopCodons"
    /\ call.i = Len(call.codons)
    /\ stopCodonCount' = Len(call.codons)
    /\ IF TooManyCodons(Len(call.codons))
       THEN /\ call' = [op |-> "fatal", table |-> call.table, outside |-> call.outside]
            /\ UNCHANGED startCodons
       ELSE /\ call' = [call EXCEPT
                          !.table = "startCodons",
                          !.codons = SelectStartCodons(call.starts, call.useAllTableStarts),
                          !.i = 0, !.count = 0]
            /\ startCodons' = [b \in 0..31 |-> 0]
    /\ UNCHANGED <<avx2, stopCodons, startCodonCount, sequence, reverseComplement,
                   bufferSize, sequenceLength, ingested, result, trace>>

\* the start loop has ended: the count is stored and tested, then the two
\* buffers are allocated
FinishStarts ==
    /\ call.op = "Orf::Orf"
    /\ call.table = "startCodons"
    /\ call.i = Len(call.codons)
    /\ startCodonCount' = Len(call.codons)
    /\ IF TooManyCodons(Len(call.codons))
       THEN /\ call' = [op |-> "fatal", table |-> call.table, outside |-> call.outside]
            /\ UNCHANGED <<sequence, reverseComplement, bufferSize>>
       ELSE /\ call' = [op |-> "Orf"]
            /\ sequence' = [i \in 0..(InitialBufferSize - 1) |-> Indeterminate]
            /\ reverseComplement' = [i \in 0..(InitialBufferSize - 1) |-> Indeterminate]
            /\ bufferSize' = InitialBufferSize
    /\ UNCHANGED <<avx2, stopCodons, stopCodonCount, startCodons, sequenceLength,
                   ingested, result, trace>>

NextConstruct ==
    \/ CopyCodon
    \/ FinishStops
    \/ FinishStarts

SpecConstruct ==
    InitConstruct /\ [][NextConstruct]_vars

-----------------------------------------------------------------------------
(* SpecIngest: setSequence as a function of its input.  A new instance is   *)
(* given one raw input; an accepted one has the content of its              *)
(* reverse-complement buffer copied out and given back to setSequence.      *)

RECURSIVE RawStrings(_, _)
RawStrings(alphabet, n) ==
    IF n = 0 THEN {<<>>}
    ELSE {s \o <<c>> : s \in RawStrings(alphabet, n - 1), c \in alphabet}

\* every byte value in first position, and every string of up to MaxRawLen
\* bytes over an upper-case letter, a lower-case letter, u and a non-IUPAC letter
IngestInputs ==
    {<<b, Chr.G, Chr.u>> : b \in Byte}
    \cup UNION {RawStrings({Chr.A, Chr.g, Chr.u, Chr.x}, n) : n \in 0..MaxRawLen}

\* the caller's copy of the reverse strand: reverseComplement[0 .. sequenceLength)
ReverseStrand ==
    [i \in 1..sequenceLength |-> reverseComplement[i - 1]]

IngestRaw ==
    /\ call.op = "Orf"
    /\ \E raw \in IngestInputs : SetSequence(raw)

Feedback ==
    /\ ingested
    /\ call.op = "setSequence"
    /\ SetSequence(ReverseStrand)

NextIngest ==
    \/ IngestRaw
    \/ Feedback

SpecIngest ==
    Init /\ [][NextIngest]_vars

-----------------------------------------------------------------------------
(* SpecBuffer: the life of one instance's buffers, any succession of        *)
(* setSequence calls: too short, rejected, accepted, fitting the buffers    *)
(* or not.                                                                  *)

\* the shortest raw inputs, and runs of one byte up to MaxRawLen
BufferInputs ==
    UNION {RawStrings({Chr.T, Chr.x}, n) : n \in 0..3}
    \cup {[i \in 1..n |-> c] : n \in 4..MaxRawLen, c \in {Chr.T, Chr.x}}

AnyCall ==
    \E raw \in BufferInputs : SetSequence(raw)

NextBuffer ==
    AnyCall

SpecBuffer ==
    Init /\ [][NextBuffer]_vars

-----------------------------------------------------------------------------
(* SpecHistory: setSequence calls one after the other on one instance, with  *)
(* long and short accepted sequences, calls rejected as too short and calls  *)
(* rejected for an invalid byte part of the way through.                     *)

\* the instance as the constructor leaves it
FreshInstance ==
    [sequence |-> [i \in 0..(InitialBufferSize - 1) |-> Indeterminate],
     reverseComplement |-> [i \in 0..(InitialBufferSize - 1) |-> Indeterminate],
     bufferSize |-> InitialBufferSize, sequenceLength |-> Indeterminate, ret |-> FALSE]

RECURSIVE Repeat(_, _)
Repeat(codon, n) ==
    IF n = 0 THEN <<>> ELSE codon \o Repeat(codon, n - 1)

HistoryInputs ==
    {TAA, ATG \o <<Chr.T>>,
     Repeat(TAA, MaxCodons), ATG \o Repeat(TAA, MaxCodons - 1) \o <<Chr.A, Chr.T>>,
     <<Chr.T, Chr.A>>,
     <<Chr.T, Chr.x, Chr.A>>, Repeat(ATG, MaxCodons - 1) \o <<Chr.x>>}

HistoryArgs ==
    {[minLength |-> 0, maxLength |-> 100, maxGaps |-> 0,
      forwardFrames |-> 7, reverseFrames |-> 7, startMode |-> sm] : sm \in StartModes}

NextCall ==
    \E raw \in HistoryInputs : SetSequence(raw)

NextHistory ==
    NextCall

SpecHistory ==
    Init /\ [][NextHistory]_vars

-----------------------------------------------------------------------------
(* Orf::parseOrfHeader.  A line is a sequence of one-character strings; an   *)
(* index past its end reads the terminating NUL.                             *)

CharAt(data, i) ==
    IF i \in 1..Len(data) THEN data[i] ELSE "NUL"

IsSpace(c) ==
    c = " "

DigitValue ==
    [c \in {"0", "1", "2", "3", "4", "5", "6", "7", "8", "9"} |->
        CASE c = "0" -> 0 [] c = "1" -> 1 [] c = "2" -> 2 [] c = "3" -> 3
          [] c = "4" -> 4 [] c = "5" -> 5 [] c = "6" -> 6 [] c = "7" -> 7
          [] c = "8" -> 8 [] c = "9" -> 9]

IsDigit(c) ==
    c \in DOMAIN DigitValue

\* Util::getWordsOfLine(data, entry, 255): entry[k] points at the first
\* character of the k-th whitespace-delimited field of the line, which is
\* left as it is (a field is not cut off from what follows it)
getWordsOfLine(data) ==
    {i \in 1..Len(data) :
        (~IsSpace(data[i])) /\ (i = 1 \/ IsSpace(data[i - 1]))}

\* entry[col][0] == '[' && entry[col][1] == 'O' && ... && entry[col][4] == ':'
BeginsOrfField(data, i) ==
    /\ CharAt(data, i) = "["
    /\ CharAt(data, i + 1) = "O"
    /\ CharAt(data, i + 2) = "r"
    /\ CharAt(data, i + 3) = "f"
    /\ CharAt(data, i + 4) = ":"

\* the directives of "[Orf: %u, %zu, %zu, %d, %d, %d]"
OrfFormat ==
    <<"[", "O", "r", "f", ":", " ", "%u", ",", " ", "%zu", ",", " ", "%zu",
      ",", " ", "%d", ",", " ", "%d", ",", " ", "%d", "]">>

\* white space in a format, and before a conversion, skips any white space
RECURSIVE SkipSpaces(_, _)
SkipSpaces(data, i) ==
    IF IsSpace(CharAt(data, i)) THEN SkipSpaces(data, i + 1) ELSE i

\* the index after the decimal digits that begin at i
RECURSIVE DigitsEnd(_, _)
DigitsEnd(data, i) ==
    IF IsDigit(CharAt(data, i)) THEN DigitsEnd(data, i + 1) ELSE i

\* the number spelled by data[i .. j)
RECURSIVE DecimalValue(_, _, _)
DecimalValue(data, i, j) ==
    IF j <= i THEN 0
    ELSE 10 * DecimalValue(data, i, j - 1) + DigitValue[data[j - 1]]

\* sscanf from data[i] on, at directive f, with the conversions stored so
\* far: the values stored when the input stops matching or the format ends.
\* Unsigned decimal spellings that fit their type are converted.
RECURSIVE ScanFormat(_, _, _, _)
ScanFormat(data, i, f, got) ==
    IF f > Len(OrfFormat) THEN got
    ELSE IF OrfFormat[f] = " "
    THEN CHOOSE r \in {ScanFormat(data, j, f + 1, got) :
                         j \in {SkipSpaces(data, i)}} : TRUE
    ELSE IF OrfFormat[f] \in {"%u", "%zu", "%d"}
    THEN CHOOSE r \in
           {IF e = b THEN got
            ELSE ScanFormat(data, e, f + 1, Append(got, DecimalValue(data, b, e))) :
              b \in {SkipSpaces(data, i)}, e \in {DigitsEnd(data, SkipSpaces(data, i))}} : TRUE
    ELSE IF CharAt(data, i) = OrfFormat[f]
    THEN ScanFormat(data, i + 1, f + 1, got)
    ELSE got

\* the return value of sscanf: the number of conversions stored
sscanf(data, i) ==
    CHOOSE r \in {[retCode |-> Len(got), stored |-> got] :
                    got \in {ScanFormat(data, i, 1, <<>>)}} : TRUE

TooFewFields_Below6(retCode) ==
    retCode < 6

\* if (retCode < 5)
TooFewFields(retCode) ==
    retCode < 5

\* static_cast<Orf::Strand>(strand), with the numeric encoding of the
\* textual format: 0 is PLUS, 1 is MINUS
StrandOf(n) ==
    IF n = 0 THEN "PLUS" ELSE IF n = 1 THEN "MINUS" ELSE n

\* Orf::parseOrfHeader(data).  unset is what the int hasIncompleteEnd holds
\* when sscanf stored five values and left it unassigned.
parseOrfHeader(data, unset) ==
    LET found == {i \in getWordsOfLine(data) : BeginsOrfField(data, i)}
    IN IF found = {} THEN [outcome |-> "fatal", error |-> "Could not find Orf information in header."]
       ELSE
         LET col == CHOOSE i \in found : \A j \in found : i <= j
             r   == sscanf(data, col)
         IN IF TooFewFields(r.retCode)
            THEN [outcome |-> "fatal", error |-> "Could not parse Orf"]
            ELSE [outcome |-> "returned",
                  loc |-> [id |-> r.stored[1], from |-> r.stored[2], to |-> r.stored[3],
                           strand |-> StrandOf(r.stored[4]),
                           hasIncompleteStart |-> (r.stored[5] # 0),
                           hasIncompleteEnd |->
                               IF r.retCode >= 6 THEN r.stored[6] # 0 ELSE unset # 0]]

-----------------------------------------------------------------------------
(* SpecHeader: parseOrfHeader on header lines written field by field *)

\* the decimal spelling of a number below 100
Decimal(n) ==
    LET d == <<"0", "1", "2", "3", "4", "5", "6", "7", "8", "9">>
    IN IF n < 10 THEN <<d[n + 1]>> ELSE <<d[(n \div 10) + 1], d[(n % 10) + 1]>>

\* what precedes the Orf field: nothing, another field, fields one of which
\* begins nearly like the Orf field, a field that begins with "[Orf:"
\* a field that begins with "[Orf:" and holds no number
DecoyField ==
    <<"[", "O", "r", "f", ":", "x", " ">>

HeaderPrefixes ==
    {<<>>,
     <<"h", "d", "r", " ">>,
     <<"[", "O", "r", "x", ":", " ", "7", " ">>,
     DecoyField}

\* A header line: its prefix, then "[Orf:" (or "[Orf" when the line has no
\* Orf field), then the first `good` of the six values, separated by sep,
\* then either the end of the line or a field that is no number and the
\* values after it, then "]".
HeaderShapes ==
    [prefix : HeaderPrefixes, hasField : BOOLEAN, spaced : BOOLEAN,
     id : {3}, from : {10}, to : {40}, strand : {0, 1},
     hasIncompleteStart : {0, 1}, hasIncompleteEnd : {0, 1},
     good : 0..6, cut : BOOLEAN]

ShapeValues(h) ==
    <<h.id, h.from, h.to, h.strand, h.hasIncompleteStart, h.hasIncompleteEnd>>

RECURSIVE RenderFields(_, _)
RenderFields(h, k) ==
    IF k > 6 \/ (h.cut /\ k > h.good) THEN <<>>
    ELSE (IF k > h.good + 1 /\ ~h.cut THEN Decimal(ShapeValues(h)[k])
          ELSE IF k > h.good THEN <<"x">>
          ELSE Decimal(ShapeValues(h)[k]))
         \o (IF k < 6 /\ ~(h.cut /\ k = h.good) THEN <<",">> ELSE <<>>)
         \o (IF k < 6 /\ h.spaced /\ ~(h.cut /\ k = h.good) THEN <<" ">> ELSE <<>>)
         \o RenderFields(h, k + 1)

Render(h) ==
    h.prefix
    \o (IF h.hasField THEN <<"[", "O", "r", "f", ":">> ELSE <<"[", "O", "r", "f">>)
    \o (IF h.spaced THEN <<" ">> ELSE <<>>)
    \o RenderFields(h, 1)
    \o <<"]">>

\* the line of the specification's example: header [Orf: 3, 10, 40, 0, 1, 0]
ExampleHeader ==
    <<"h", "e", "a", "d", "e", "r", " ", "[", "O", "r", "f", ":", " ", "3", ",",
      " ", "1", "0", ",", " ", "4", "0", ",", " ", "0", ",", " ", "1", ",", " ",
      "0", "]">>

ParseHeader ==
    /\ call.op = "Orf"
    /\ \E h \in HeaderShapes, unset \in {0, 1} :
         call' = [op |-> "parseOrfHeader", shape |-> h, data |-> Render(h),
                  parsed |-> parseOrfHeader(Render(h), unset)]
    /\ UNCHANGED <<avx2, stopCodons, stopCodonCount, startCodons, startCodonCount,
                   sequence, reverseComplement, bufferSize, sequenceLength,
                   ingested, result, trace>>

ParseExample ==
    /\ call.op = "Orf"
    /\ \E unset \in {0, 1} :
         call' = [op |-> "parseOrfHeader", data |-> ExampleHeader,
                  parsed |-> parseOrfHeader(ExampleHeader, unset)]
    /\ UNCHANGED <<avx2, stopCodons, stopCodonCount, startCodons, startCodonCount,
                   sequence, reverseComplement, bufferSize, sequenceLength,
                   ingested, result, trace>>

NextHeader ==
    \/ ParseHeader
    \/ ParseExample

SpecHeader ==
    Init /\ [][NextHeader]_vars

-----------------------------------------------------------------------------
(* Reference notions the claims are stated with *)

\* the letters with a defined IUPAC complement, after normalisation
IupacLetters ==
    {Chr.A, Chr.B, Chr.C, Chr.D, Chr.G, Chr.H, Chr.K, Chr.M, Chr.N, Chr.R,
     Chr.S, Chr.T, Chr.V, Chr.W, Chr.Y}

\* upper-casing of a byte, then U read as T
Canonical(b) ==
    LET up == IF b \in 97..122 THEN b - 32 ELSE b
    IN IF up = Chr.U THEN Chr.T ELSE up

\* the bases an IUPAC letter stands for
IupacBases ==
    [c \in IupacLetters |->
        CASE c = Chr.A -> {"A"}
          [] c = Chr.C -> {"C"}
          [] c = Chr.G -> {"G"}
          [] c = Chr.T -> {"T"}
          [] c = Chr.R -> {"A", "G"}
          [] c = Chr.Y -> {"C", "T"}
          [] c = Chr.S -> {"C", "G"}
          [] c = Chr.W -> {"A", "T"}
          [] c = Chr.K -> {"G", "T"}
          [] c = Chr.M -> {"A", "C"}
          [] c = Chr.B -> {"C", "G", "T"}
          [] c = Chr.D -> {"A", "G", "T"}
          [] c = Chr.H -> {"A", "C", "T"}
          [] c = Chr.V -> {"A", "C", "G"}
          [] c = Chr.N -> {"A", "C", "G", "T"}]

BasePair ==
    [A |-> "T", C |-> "G", G |-> "C", T |-> "A"]

\* the IUPAC complement: the letter that stands for the paired bases
IupacComplement(c) ==
    CHOOSE d \in IupacLetters : IupacBases[d] = {BasePair[b] : b \in IupacBases[c]}

\* position p holds the last complete codon of its phase: the codon fits the
\* sequence and the next one of the phase does not
IsLastCodon(p) ==
    p + 3 <= sequenceLength /\ p + 6 > sequenceLength

\* the last call gave setSequence the reverse strand of an accepted sequence
FedBack ==
    /\ call.op = "setSequence"
    /\ call.wasIngested
    /\ call.raw = [i \in 1..call.before.sequenceLength |->
                      call.before.reverseComplement[i - 1]]

\* the real triplets of a table: what the constructor was given
StopTriplets ==
    {<<stopCodons[4 * i], stopCodons[4 * i + 1], stopCodons[4 * i + 2]>> :
        i \in 0..(stopCodonCount - 1)}

StartTriplets ==
    {<<startCodons[4 * i], startCodons[4 * i + 1], startCodons[4 * i + 2]>> :
        i \in 0..(startCodonCount - 1)}

\* the buffer a strand's locations index
StrandBuffer(strand) ==
    IF strand = "PLUS" THEN sequence ELSE reverseComplement

Window(buf, p) ==
    <<buf[p], buf[p + 1], buf[p + 2]>>

\* the content of the forward buffer, as a sequence
Forward ==
    [i \in 1..sequenceLength |-> sequence[i - 1]]

Scanned ==
    call.op = "findAll"

Events ==
    {trace[i] : i \in 1..Len(trace)}

Locations ==
    {result[i] : i \in 1..Len(result)}

\* the in-frame codon positions of the ORF an event closed
OrfCodons(e) ==
    {q \in e.loc.from..e.position : (q - e.loc.from) % 3 = 0}

IsGapCodon(buf, q) ==
    \E j \in 0..2 : buf[q + j] = Chr.N \/ buf[q + j] \notin IupacLetters

RunLength(e) ==
    Cardinality(OrfCodons(e))

GapCount(e) ==
    Cardinality({q \in OrfCodons(e) : IsGapCodon(StrandBuffer(e.strand), q)})

\* the example scans of the specification: tables {ATG} / {TAA}, frame 0 of
\* the forward strand selected, minLength 0, maxLength 100, maxGaps 0
ExampleScan(seq) ==
    /\ Scanned
    /\ StopTriplets = {TAA}
    /\ StartTriplets = {ATG}
    /\ Forward = seq
    /\ call.args.minLength = 0
    /\ call.args.maxLength = 100
    /\ call.args.maxGaps = 0

-----------------------------------------------------------------------------
(* Claims *)

\* C1 (as stated): under START_TO_STOP with tables {ATG} / {TAA}, scanning
\* ATGAAATAA with frame 0 only, minLength 0, maxLength 100, maxGaps 0 emits
\* exactly the location PLUS 0..9 with hasIncompleteStart = false and
\* hasIncompleteEnd = false; and under START_TO_STOP every emitted ORF that
\* begins at its phase's initial offset on a start codon has
\* hasIncompleteStart = false.
C1_StartCodonAtOffsetIsCompleteStart ==
    /\ (/\ ExampleScan(ATG \o AAA \o TAA)
        /\ call.args.startMode = "START_TO_STOP"
        /\ call.args.forwardFrames = 1
        /\ call.args.reverseFrames = 0)
       => result = << [from |-> 0, to |-> 9, hasIncompleteStart |-> FALSE,
                       hasIncompleteEnd |-> FALSE, strand |-> "PLUS"] >>
    /\ (Scanned /\ call.args.startMode = "START_TO_STOP")
       => \A l \in Locations :
            (l.from < FRAMES /\ Window(StrandBuffer(l.strand), l.from) \in StartTriplets)
            => ~l.hasIncompleteStart

\* C1 (amended): the same scan emits exactly the location PLUS 0..9 with
\* hasIncompleteStart = true and hasIncompleteEnd = false; and under
\* START_TO_STOP every emitted ORF that begins at its phase's initial offset
\* on a start codon has hasIncompleteStart = true (it was open from the seed
\* state, where the start codons are not consulted).
C1_StartCodonAtOffsetIsIncompleteStart ==
    /\ (/\ ExampleScan(ATG \o AAA \o TAA)
        /\ call.args.startMode = "START_TO_STOP"
        /\ call.args.forwardFrames = 1
        /\ call.args.reverseFrames = 0)
       => result = << [from |-> 0, to |-> 9, hasIncompleteStart |-> TRUE,
                       hasIncompleteEnd |-> FALSE, strand |-> "PLUS"] >>
    /\ (Scanned /\ call.args.startMode = "START_TO_STOP")
       => \A l \in Locations :
            (l.from < FRAMES /\ Window(StrandBuffer(l.strand), l.from) \in StartTriplets)
            => l.hasIncompleteStart

\* C1 witness: the example scan was made and emitted its one location
C1_Witness ==
    /\ ExampleScan(ATG \o AAA \o TAA)
    /\ call.args.startMode = "START_TO_STOP"
    /\ call.args.forwardFrames = 1
    /\ call.args.reverseFrames = 0
    /\ Len(result) = 1
    /\ result[1].from = 0
    /\ result[1].to = 9

C3_MatcherAgreesWithTriplets ==
    ingested =>
      \A p \in 0..(sequenceLength - 1) :
        LET regs == LoadTables(Tables)
        IN /\ MatchCodon(sequence, p, regs.stopCodonsHi, regs.stopCodonsLo,
                         stopCodonCount, avx2)
                = (Window(sequence, p) \in StopTriplets)
           /\ MatchCodon(sequence, p, regs.startCodonsHi, regs.startCodonsLo,
                         startCodonCount, avx2)
                = (Window(sequence, p) \in StartTriplets)

\* C4 (as stated): an emitted location has hasIncompleteStart = true exactly
\* when the ORF was not opened on a start codon: it was open from the seed
\* state, or the codon it was opened on is not a start codon.
C4_IncompleteStartIffNotOpenedOnStartCodon ==
    Scanned =>
      \A e \in Events :
        e.emitted =>
          e.loc.hasIncompleteStart =
            ~(/\ e.opener = "start"
              /\ Window(StrandBuffer(e.strand), e.loc.from) \in StartTriplets)

\* C5: every emitted location has minLength < runLength <= maxLength and
\* gapCount <= maxGaps, runLength counting the codons of its phase from the
\* opening to the closing codon and gapCount those of them with an N or a
\* byte without complement; a closure that breaks a bound emits nothing; and
\* every closure leaves the inside-ORF state, so the next ORF closed in the
\* phase was opened after it.
C5_EmittedWithinBounds ==
    Scanned =>
      /\ \A e \in Events :
           LET within == /\ call.args.minLength < RunLength(e)
                         /\ RunLength(e) <= call.args.maxLength
                         /\ GapCount(e) <= call.args.maxGaps
           IN /\ e.emitted => within
              /\ (~within) => e.loc \notin Locations
              /\ ~e.insideAfter
      /\ \A i, j \in 1..Len(trace) :
           (i < j /\ trace[i].strand = trace[j].strand /\ trace[i].frame = trace[j].frame)
           => trace[j].loc.from > trace[i].position
      /\ \A l \in Locations : \E e \in Events : e.emitted /\ e.loc = l

\* C5 witness: one scan emitted an ORF and dropped another for a bound
C5_Witness ==
    /\ Scanned
    /\ \E e \in Events : e.emitted /\ GapCount(e) = call.args.maxGaps /\ GapCount(e) > 0
    /\ \E e \in Events :
         (~e.emitted) /\ e.loc.to # e.loc.from /\ RunLength(e) = call.args.minLength

\* C6: every emitted location has to > from, the assertion to > from[frame]
\* holds whenever it is reached, and a closure whose closing offset is its
\* opening offset emits nothing.
C6_ToAfterFrom ==
    Scanned =>
      /\ \A l \in Locations : l.to > l.from
      /\ \A e \in Events :
           /\ e.asserted => e.loc.to > e.loc.from
           /\ (e.loc.to = e.loc.from) => (~e.emitted /\ e.loc \notin Locations)

\* C6 witness: a scan with an empty closure and an emitted location
C6_Witness ==
    /\ Scanned
    /\ \E e \in Events : e.loc.to = e.loc.from
    /\ \E e \in Events : e.emitted /\ e.loc.to > e.loc.from

\* C7 (as stated): an emitted location has hasIncompleteEnd = true exactly
\* when the codon the ORF was closed at is not a stop codon of the table.
C7_IncompleteEndIffNotClosedOnStopCodon ==
    Scanned =>
      \A e \in Events :
        e.emitted =>
          e.loc.hasIncompleteEnd =
            (Window(StrandBuffer(e.strand), e.position) \notin StopTriplets)

\* C8: setSequence returns true exactly when the input has at least 3 bytes
\* and every byte, upper-cased and with U read as T, is one of the letters
\* A,B,C,D,G,H,K,M,N,R,S,T,V,W,Y; so it returns false for lengths 0, 1, 2 and
\* for an input with a byte outside these letters.
C8_AcceptsExactlyValidInputs ==
    call.op = "setSequence"
    => (call.ret <=> (/\ Len(call.raw) >= 3
                      /\ \A i \in 1..Len(call.raw) :
                            Canonical(call.raw[i]) \in IupacLetters))

\* C8 witness: an input with lower-case letters and u was accepted
C8_Witness ==
    /\ call.op = "setSequence"
    /\ call.ret
    /\ \E i, j \in 1..Len(call.raw) : call.raw[i] = Chr.u /\ call.raw[j] = Chr.g

\* C9: a setSequence call with fewer than 3 bytes leaves the forward buffer,
\* the reverse-complement buffer, the capacity and the stored length as they
\* were, and a findAll after it returns what it returned before it.
C9_ShortCallChangesNothing ==
    (call.op = "setSequence" /\ Len(call.raw) < 3)
    => /\ sequence = call.before.sequence
       /\ reverseComplement = call.before.reverseComplement
       /\ bufferSize = call.before.bufferSize
       /\ sequenceLength = call.before.sequenceLength
       /\ call.wasIngested
          => \A a \in ScanArgs :
                findAll(Instance, a, Tables).result
                    = findAll(call.before, a, Tables).result

\* C9 witness: a 2-byte call made on an instance that holds an accepted
\* sequence, in buffers that were reallocated, with ORFs to find
C9_Witness ==
    /\ call.op = "setSequence"
    /\ Len(call.raw) = 2
    /\ call.wasIngested
    /\ call.before.bufferSize > InitialBufferSize
    /\ \E a \in ScanArgs : findAll(Instance, a, Tables).result # <<>>

\* C10: after an accepted call the reverse-complement buffer holds the IUPAC
\* complements of the normalized input bytes in reverse order, and when the
\* input was the reverse strand of an accepted sequence the reverse-complement
\* buffer equals that sequence's normalized forward bytes.
C10_ReverseComplementInvolution ==
    (call.op = "setSequence" /\ call.ret)
    => LET n == Len(call.raw)
       IN /\ sequenceLength = n
          /\ \A i \in 0..(n - 1) :
                /\ sequence[i] = Canonical(call.raw[i + 1])
                /\ reverseComplement[i] = IupacComplement(Canonical(call.raw[n - i]))
          /\ FedBack
             => \A i \in 0..(n - 1) : reverseComplement[i] = call.before.sequence[i]

\* C10 witness: the reverse strand of a sequence that is not its own reverse
\* complement was given back and accepted
C10_Witness ==
    /\ FedBack
    /\ call.ret
    /\ \E i \in 0..(sequenceLength - 1) : sequence[i] # reverseComplement[i]
    /\ \E i \in 0..(sequenceLength - 1) : reverseComplement[i] = Chr.R

\* C11 (as stated): after an accepted setSequence, also one that reallocated
\* the buffers to exactly length + VECSIZE_INT bytes, every index the scanner
\* reads at a visited position (the vector load of isInCodons, the bytes of
\* the codon and of the look-ahead codon) is below the buffer capacity.
\* Stated here for the reallocated buffers, whose capacity the code computes.
C11_ScannerReadsWithinCapacity ==
    (/\ Scanned
     /\ bufferSize > InitialBufferSize
     /\ bufferSize = sequenceLength + VECSIZE_INT(avx2))
    => \A strand \in {"PLUS", "MINUS"} :
         \A k \in 1..Len(call.visits[strand]) :
           \A i \in ScannerReads(StrandBuffer(strand), call.visits[strand][k], avx2) :
             i < bufferSize

\* C12: parseOrfHeader takes the first whitespace-delimited field that begins
\* with "[Orf:" and decodes id, from, to, strand, hasIncompleteStart and
\* hasIncompleteEnd from there; it ends in the fatal error when no field
\* begins with "[Orf:" or fewer than 5 of the 6 values parse, and returns a
\* location otherwise; "header [Orf: 3, 10, 40, 0, 1, 0]" gives id 3, from 10,
\* to 40, PLUS, hasIncompleteStart true, hasIncompleteEnd false.
C12_HeaderDecoding ==
    call.op = "parseOrfHeader" =>
      /\ ("shape" \in DOMAIN call) =>
           LET h        == call.shape
               hasOrf   == h.hasField \/ h.prefix = DecoyField
               numbers  == IF h.prefix = DecoyField \/ ~h.hasField THEN 0 ELSE h.good
               returned == call.parsed.outcome = "returned"
           IN /\ (call.parsed.outcome = "fatal") <=> ((~hasOrf) \/ numbers < 5)
              /\ call.parsed.outcome \in {"fatal", "returned"}
              /\ returned =>
                   /\ call.parsed.loc.id = h.id
                   /\ call.parsed.loc.from = h.from
                   /\ call.parsed.loc.to = h.to
                   /\ call.parsed.loc.strand = (IF h.strand = 0 THEN "PLUS" ELSE "MINUS")
                   /\ call.parsed.loc.hasIncompleteStart = (h.hasIncompleteStart = 1)
                   /\ (numbers = 6) =>
                        call.parsed.loc.hasIncompleteEnd = (h.hasIncompleteEnd = 1)
      /\ (call.data = ExampleHeader) =>
           call.parsed = [outcome |-> "returned",
                          loc |-> [id |-> 3, from |-> 10, to |-> 40, strand |-> "PLUS",
                                   hasIncompleteStart |-> TRUE,
                                   hasIncompleteEnd |-> FALSE]]

\* C12 witness: a line with another field before the Orf field, of whose
\* values exactly five parse, gave a location
C12_Witness ==
    /\ call.op = "parseOrfHeader"
    /\ "shape" \in DOMAIN call
    /\ call.shape.prefix = <<"h", "d", "r", " ">>
    /\ call.shape.hasField
    /\ call.shape.good = 5
    /\ call.shape.strand = 1
    /\ call.parsed.outcome = "returned"

\* C13 (as stated): under LAST_START_TO_STOP no codon of an emitted ORF's
\* phase strictly between its from and its closing position is a start codon
\* of the table: the ORF begins at the last start codon before its closure.
C13_NoStartCodonInsideOrf ==
    (Scanned /\ call.args.startMode = "LAST_START_TO_STOP") =>
      \A e \in Events :
        e.emitted =>
          \A p \in (e.loc.from + 1)..(e.position - 1) :
            ((p - e.loc.from) % 3 = 0)
            => Window(StrandBuffer(e.strand), p) \notin StartTriplets

C15_NoOrfBeginsAtLastCodon ==
    Scanned => \A l \in Locations : ~IsLastCodon(l.from)

\* C15 (amended): a start is never taken on a last window, so no ORF opened
\* by a start begins at the last complete codon of its phase; an emitted
\* location begins there only when that codon is the phase's first one: the
\* ORF open from the seed state is closed on it and emitted from the phase's
\* offset to offset + 3 with hasIncompleteStart = true.
C15_OnlySeedOrfBeginsAtLastCodon ==
    Scanned =>
      \A e \in Events :
        /\ (e.opener = "start") => ~IsLastCodon(e.loc.from)
        /\ (e.emitted /\ IsLastCodon(e.loc.from))
           => /\ e.opener = "seed"
              /\ e.loc.from = e.frame
              /\ e.loc.to = e.frame + 3
              /\ e.loc.hasIncompleteStart

\* C15 witness: a scan in which a start codon stands at the last complete
\* codon of a phase, an ORF opened by a start was emitted, and the seed ORF
\* of a phase with one complete codon was emitted
C15_Witness ==
    /\ Scanned
    /\ \E p \in 3..sequenceLength :
         IsLastCodon(p) /\ Window(sequence, p) \in StartTriplets
                        /\ FrameSelected(call.args.forwardFrames, p % 3)
    /\ \E e \in Events : e.emitted /\ e.opener = "start"
    /\ \E e \in Events : e.emitted /\ IsLastCodon(e.loc.from)

\* C19: in the result of one findAll, of two locations of the same strand
\* and phase the earlier one ends at or before the later one's from; every
\* location has 0 <= from < to <= sequenceLength with from and to congruent
\* to its phase modulo 3; and no location appears twice.
C19_LocationsDisjointAndDistinct ==
    Scanned =>
      /\ \A i, j \in 1..Len(result) :
           (/\ i < j
            /\ result[i].strand = result[j].strand
            /\ result[i].from % 3 = result[j].from % 3)
           => result[i].to <= result[j].from
      /\ \A l \in Locations :
           /\ 0 <= l.from
           /\ l.from < l.to
           /\ l.to <= sequenceLength
           /\ l.to % 3 = l.from % 3
           /\ \E e \in Events : e.emitted /\ e.loc = l /\ e.frame = l.from % 3
      /\ \A i, j \in 1..Len(result) : (i # j) => result[i] # result[j]

\* C19 witness: two locations of one strand and phase in one result
C19_Witness ==
    /\ Scanned
    /\ \E i, j \in 1..Len(result) :
         /\ i < j
         /\ result[i].strand = result[j].strand
         /\ result[i].from % 3 = result[j].from % 3

\* C16: a pass emits locations only for the phases whose bit is set in its
\* mask (from mod 3 is such a phase), it ends with the per-phase state of
\* every other phase as it was initialised, and the locations it emits for a
\* selected phase are, in order, those a pass with only that phase's bit
\* emits, whatever the other two bits are.
C16_FrameMaskIsolatesPhases ==
    Scanned =>
      \A strand \in {"PLUS", "MINUS"} :
        LET frames == IF strand = "PLUS" THEN call.args.forwardFrames
                      ELSE call.args.reverseFrames
            bit(f) == (frames \div (2 ^ f)) % 2 = 1
            end    == call.final[strand]
        IN \A f \in 0..2 :
             LET OfPhase(l) == l.strand = strand /\ l.from % 3 = f
                 alone == findForward(StrandBuffer(strand), sequenceLength,
                                      [minLength |-> call.args.minLength,
                                       maxLength |-> call.args.maxLength,
                                       maxGaps |-> call.args.maxGaps,
                                       frames |-> 2 ^ f,
                                       startMode |-> call.args.startMode,
                                       strand |-> strand], Tables)
             IN IF bit(f)
                THEN SelectSeq(result, OfPhase) = alone.result
                ELSE /\ SelectSeq(result, OfPhase) = <<>>
                     /\ end.isInsideOrf[f] = TRUE
                     /\ end.hasStartCodon[f] = FALSE
                     /\ end.countGaps[f] = 0
                     /\ end.countLength[f] = 0
                     /\ end.from[f] = f

\* C16 witness: a pass with two phases selected emitted for both, while the
\* third phase, left out, would have emitted on its own
C16_Witness ==
    /\ Scanned
    /\ call.args.forwardFrames = 5
    /\ \E l \in Locations : l.strand = "PLUS" /\ l.from % 3 = 0
    /\ \E l \in Locations : l.strand = "PLUS" /\ l.from % 3 = 2
    /\ findForward(sequence, sequenceLength,
                   [minLength |-> call.args.minLength, maxLength |-> call.args.maxLength,
                    maxGaps |-> call.args.maxGaps, frames |-> 2,
                    startMode |-> call.args.startMode, strand |-> "PLUS"],
                   Tables).result # <<>>

\* the positions a pass over a strand is to classify: the complete codon
\* windows 0..sequenceLength-3 whose phase is selected by the mask
WindowsToVisit(frames) ==
    {p \in 0..(sequenceLength - 3) : (frames \div (2 ^ (p % 3))) % 2 = 1}

\* C17: findAll terminates, and when it has returned, each pass visited
\* positions in strictly increasing order (so none twice, and the phases
\* interleaved position by position), visited only positions of selected
\* phases inside the sequence, and visited every complete codon window
\* (positions 0..L-3) of every selected phase.
C17_TerminatesHavingVisitedEveryWindow ==
    /\ [](Scanned =>
           \A strand \in {"PLUS", "MINUS"} :
             LET frames == IF strand = "PLUS" THEN call.args.forwardFrames
                           ELSE call.args.reverseFrames
                 v      == call.visits[strand]
             IN /\ \A k \in 1..(Len(v) - 1) : v[k] < v[k + 1]
                /\ \A k \in 1..Len(v) :
                     /\ v[k] \in 0..(sequenceLength - 1)
                     /\ (frames \div (2 ^ (v[k] % 3))) % 2 = 1
                /\ \A p \in WindowsToVisit(frames) : \E k \in 1..Len(v) : v[k] = p)
    /\ ((call.op = "findForward") ~> Scanned)

\* C17 witness: a findAll that ran loop iteration by loop iteration has
\* returned after a forward pass over two phases and a reverse pass, on a
\* sequence whose length is not a multiple of three
C17_Witness ==
    /\ Scanned
    /\ call.args.forwardFrames = 5
    /\ sequenceLength % 3 = 2
    /\ Len(call.visits["PLUS"]) = Cardinality(WindowsToVisit(5))
    /\ Len(call.visits["PLUS"]) >= 6
    /\ call.visits["MINUS"] # <<>>

\* C20: a construction that ended in the fatal error wrote no byte past the
\* 32 bytes (slots 0..7) of the stop table or of the start table.
C20_NoWriteOutsideTable ==
    (call.op = "fatal") => call.outside = {}

\* C18: after an accepted setSequence(s, L), whatever calls came before it,
\* the forward buffer holds the normalized bytes of s in [0, L), the
\* reverse-complement buffer their reverse complement in [0, L), both hold
\* CHAR_MAX in [L, L + VECSIZE_INT), the capacity is at least L + VECSIZE_INT,
\* and findAll returns the locations it returns on a new instance given s.
C18_HistoryIndependentAfterSuccess ==
    (call.op = "setSequence" /\ call.ret)
    => LET n     == Len(call.raw)
           fresh == setSequence(FreshInstance, call.raw, n, avx2)
       IN /\ sequenceLength = n
          /\ \A i \in 0..(n - 1) :
                /\ sequence[i] = Canonical(call.raw[i + 1])
                /\ reverseComplement[i] = IupacComplement(Canonical(call.raw[n - i]))
          /\ \A i \in n..(n + VECSIZE_INT(avx2) - 1) :
                /\ sequence[i] = CHAR_MAX
                /\ reverseComplement[i] = CHAR_MAX
          /\ bufferSize >= n + VECSIZE_INT(avx2)
          /\ DOMAIN sequence = 0..(bufferSize - 1)
          /\ DOMAIN reverseComplement = 0..(bufferSize - 1)
          /\ fresh.ret
          /\ \A a \in HistoryArgs :
                findAll(Instance, a, Tables).result = findAll(fresh, a, Tables).result

\* C18 witness: a sequence was accepted into buffers that an earlier, longer
\* sequence had enlarged and whose bytes remain past the padding, after a
\* call that was rejected; the instance differs from a new one given the
\* same sequence, and there are ORFs to find
C18_Witness ==
    /\ call.op = "setSequence"
    /\ call.ret
    /\ ~call.wasIngested
    /\ bufferSize > Len(call.raw) + VECSIZE_INT(avx2)
    /\ \E i \in (Len(call.raw) + VECSIZE_INT(avx2))..(bufferSize - 1) :
          sequence[i] \in {Chr.A, Chr.T, Chr.G}
    /\ [Instance EXCEPT !.ret = TRUE]
          # setSequence(FreshInstance, call.raw, Len(call.raw), avx2)
    /\ \E a \in HistoryArgs : findAll(Instance, a, Tables).result # <<>>

====
